---- MODULE Spec2Model ----
(***************************************************************************)
(* Research planner / executor agent: the two provider adapters of         *)
(* llm_client.py (GeminiClient, OpenAICompatibleClient), the task parser   *)
(* and the Streamlit pipeline driver of research_planner_executor_agent.py.*)
(*                                                                         *)
(* Representation.  A Python str is a sequence of tokens (TLA+ strings);   *)
(* plan texts are sequences of single characters so that parse_tasks can   *)
(* be computed on them, other texts use coarser tokens.  Python's None is  *)
(* the reserved one-token sequence None, so that every text-valued field   *)
(* has one type.  Bytes and interaction ids are one-token sequences.       *)
(***************************************************************************)
EXTENDS Integers, Sequences, FiniteSets, TLC

VARIABLES
    \* --- Pipeline driver: st.session_state and the sidebar configuration
    provider, configured,
    plan_id, plan_text, tasks, research_id, research_text, synthesis_text, infographic,
    \* what the last button handling did (adapter calls made, their returns)
    event,
    \* --- GeminiClient.execute_research / _wait_for_completion, step by step
    pc, iid, elapsed, progress, status_text, interaction, result, error,
    polls, waits, fetches,
    \* --- OpenAICompatibleClient.execute_research applied to one input
    r_pc, r_selected, r_behaviour, r_idx, r_results, r_progress, r_out,
    \* --- parse_tasks applied to one plan text
    p_pc, p_lines, p_text, p_tasks

driverVars == <<provider, configured, plan_id, plan_text, tasks, research_id,
                research_text, synthesis_text, infographic, event>>
waitVars == <<pc, iid, elapsed, progress, status_text, interaction, result, error,
              polls, waits, fetches>>
researchVars == <<r_pc, r_selected, r_behaviour, r_idx, r_results, r_progress, r_out>>
parseVars == <<p_pc, p_lines, p_text, p_tasks>>
vars == <<driverVars, waitVars, researchVars, parseVars>>

----------------------------------------------------------------------------
(* Python values *)

None == <<"None">>

\* Python truthiness of an Optional[str] / Optional[bytes] / list
Truthy(v) == v # None /\ v # <<>>

\* a or b
Or(a, b) == IF Truthy(a) THEN a ELSE b

Min(a, b) == IF a <= b THEN a ELSE b

RECURSIVE Join(_, _)
\* sep.join(parts)
Join(parts, sep) ==
    IF parts = <<>> THEN <<>>
    ELSE IF Len(parts) = 1 THEN parts[1]
    ELSE parts[1] \o sep \o Join(Tail(parts), sep)

RECURSIVE WithText(_)
\* [o.text for o in outputs if hasattr(o, 'text') and o.text]
WithText(outputs) ==
    IF outputs = <<>> THEN <<>>
    ELSE (IF Truthy(outputs[1]) THEN <<outputs[1]>> ELSE <<>>) \o WithText(Tail(outputs))

\* get_text(outputs): outputs is a list of output objects, each modelled by
\* its .text (None when the object has no text attribute); `outputs or []`
\* makes an absent outputs the empty list, which is how it is modelled
get_text(outputs) == Or(Join(WithText(outputs), <<"\n">>), <<>>)

----------------------------------------------------------------------------
(* Task parser: parse_tasks                                                *)
(* r'^(\d+)[\.\)\-]\s*(.+?)(?=\n\d+[\.\)\-]|\n\n|\Z)', MULTILINE | DOTALL    *)

IsDigit(c) == c \in {"0", "1", "2", "3", "4", "5", "6", "7", "8", "9"}
IsSep(c) == c \in {".", ")", "-"}
IsSpace(c) == c \in {" ", "\n", "\t"}

RECURSIVE DigitsEnd(_, _)
\* \d+ is greedy: index of the first non-digit at or after i
DigitsEnd(text, i) ==
    IF i <= Len(text) /\ IsDigit(text[i]) THEN DigitsEnd(text, i + 1) ELSE i

RECURSIVE SpaceEnd(_, _)
\* \s* is greedy: index of the first non-whitespace at or after i
SpaceEnd(text, i) ==
    IF i <= Len(text) /\ IsSpace(text[i]) THEN SpaceEnd(text, i + 1) ELSE i

\* the lookahead without its first alternative: (?=\n\n|\Z)
LookaheadBlankOnly(text, e) ==
    \/ e = Len(text) + 1
    \/ e + 1 <= Len(text) /\ text[e] = "\n" /\ text[e + 1] = "\n"

\* (?=\n\d+[\.\)\-]|\n\n|\Z) at index e (the next character to read)
Lookahead(text, e) ==
    \/ e = Len(text) + 1
    \/ /\ e + 1 <= Len(text)
       /\ text[e] = "\n"
       /\ \/ text[e + 1] = "\n"
          \/ /\ IsDigit(text[e + 1])
             /\ DigitsEnd(text, e + 1) <= Len(text)
             /\ IsSep(text[DigitsEnd(text, e + 1)])

RECURSIVE BodyEnd(_, _)
\* (.+?) is lazy: the smallest end e at or after i where the lookahead holds
BodyEnd(text, e) ==
    IF Lookahead(text, e) THEN e ELSE BodyEnd(text, e + 1)

\* where the body starts for a match whose separator is at index d: \s* takes
\* all the whitespace, and gives one character back to (.+?) when the
\* whitespace runs to the end of the text; 0 when there is no body
BodyStart(text, d) ==
    LET w == SpaceEnd(text, d + 1)
    IN  IF w <= Len(text) THEN w
        ELSE IF w - 1 > d THEN w - 1 ELSE 0

\* the pattern without its ^ anchor
MatchesAtUnanchored(text, s) ==
    /\ s <= Len(text)
    /\ IsDigit(text[s])
    /\ DigitsEnd(text, s) <= Len(text)
    /\ IsSep(text[DigitsEnd(text, s)])
    /\ BodyStart(text, DigitsEnd(text, s)) # 0

\* whether the pattern matches starting at index s
MatchesAt(text, s) ==
    /\ s <= Len(text)
    /\ (s = 1 \/ text[s - 1] = "\n")
    /\ IsDigit(text[s])
    /\ DigitsEnd(text, s) <= Len(text)
    /\ IsSep(text[DigitsEnd(text, s)])
    /\ BodyStart(text, DigitsEnd(text, s)) # 0

RECURSIVE LStrip(_)
LStrip(s) == IF s # <<>> /\ IsSpace(s[1]) THEN LStrip(Tail(s)) ELSE s

RECURSIVE RStrip(_)
RStrip(s) ==
    IF s # <<>> /\ IsSpace(s[Len(s)]) THEN RStrip(SubSeq(s, 1, Len(s) - 1)) ELSE s

\* str.strip()
Strip(s) == RStrip(LStrip(s))

\* str.replace('\n', ' ')
ReplaceNewlines(s) == [i \in 1..Len(s) |-> IF s[i] = "\n" THEN " " ELSE s[i]]

\* the dict built from one match starting at s
TaskOfMatch(text, s) ==
    LET d == DigitsEnd(text, s)
        b == BodyStart(text, d)
        e == BodyEnd(text, b + 1)
    IN  [num |-> SubSeq(text, s, d - 1),
         text |-> ReplaceNewlines(Strip(SubSeq(text, b, e - 1)))]

\* the end (next scan position) of the match starting at s
MatchEnd(text, s) ==
    BodyEnd(text, BodyStart(text, DigitsEnd(text, s)) + 1)

RECURSIVE FindIter(_, _)
\* re.finditer: leftmost non-overlapping matches, scanning from pos
FindIter(text, pos) ==
    IF pos > Len(text) THEN <<>>
    ELSE IF MatchesAt(text, pos)
         THEN <<TaskOfMatch(text, pos)>> \o FindIter(text, MatchEnd(text, pos))
         ELSE FindIter(text, pos + 1)

parse_tasks(text) == FindIter(text, 1)

RECURSIVE FindStarts(_, _)
\* m.start() of the matches re.finditer yields, scanning from pos
FindStarts(text, pos) ==
    IF pos > Len(text) THEN {}
    ELSE IF MatchesAt(text, pos)
         THEN {pos} \cup FindStarts(text, MatchEnd(text, pos))
         ELSE FindStarts(text, pos + 1)

----------------------------------------------------------------------------
(* Backend replies.  The model, search and image services are external: an  *)
(* adapter call either raises or returns a reply drawn from these sets.     *)

MaxIds == 1

\* ids the stateful backend hands out
InteractionIds == {<<ToString(i)>> : i \in 1..MaxIds}

IN_PROGRESS == "in_progress"
Statuses == {IN_PROGRESS, "completed", "failed", "cancelled"}

\* plan narratives a backend may answer with (character sequences)
PlanThree == <<"1", ".", " ", "a", "\n", "2", ")", " ", "b", "\n", "3", "-", " ", "c">>
PlanDup == <<"1", ".", " ", "a", "\n", "1", ".", " ", "b">>
PlanProse == <<"a", " ", "b">>
PlanTexts == {PlanThree, PlanDup, PlanProse}

\* a reply of client.interactions.create / client.interactions.get
Interaction(id, status, outputs) ==
    [ok |-> TRUE, id |-> id, status |-> status, outputs |-> outputs]
\* the call raised
Fault == [ok |-> FALSE, id |-> None, status |-> "error", outputs |-> <<>>]

\* a reply of client.chat.completions.create: choices[0].message.content
Completion(content) == [ok |-> TRUE, content |-> content]
ChatFault == [ok |-> FALSE, content |-> None]

\* a reply of client.models.generate_content: the inline_data.data of each
\* part of candidates[0].content.parts (None for a part without inline data)
Image(parts) == [ok |-> TRUE, parts |-> parts]
ImageFault == [ok |-> FALSE, parts |-> <<>>]

PlanReplies ==
    {Fault} \cup {Interaction(id, "completed", o) :
                    id \in InteractionIds, o \in {<<>>} \cup {<<t>> : t \in PlanTexts}}
PlanCompletions == {ChatFault, Completion(None)} \cup {Completion(t) : t \in PlanTexts}

Findings == <<"findings">>
\* the interaction _wait_for_completion hands back (or its raising)
ResearchReplies ==
    {Fault} \cup {Interaction(id, s, o) :
                    id \in InteractionIds, s \in {IN_PROGRESS, "completed"},
                    o \in {<<>>, <<Findings>>}}

Report == <<"report">>
SynthesisReplies ==
    {Fault} \cup {Interaction(<<"1">>, "completed", o) : o \in {<<>>, <<Report>>}}
SynthesisCompletions == {ChatFault, Completion(None), Completion(Report)}

Png == <<"png">>
ImageReplies == {ImageFault, Image(<<None>>), Image(<<None, Png>>)}

\* per selected task, what the search provider and the model do
TaskBehaviours == {"ok", "search_fail", "llm_fail"}
\* self.ddgs.text(task, max_results=3): one hit
SearchHits == <<[title |-> "title", body |-> "body", href |-> "href"]>>
Summary == <<"summary">>

----------------------------------------------------------------------------
(* What an adapter call hands back to the driver *)

\* a returned dict {"id": .., "text": ..}
Dict(id, text) == [isNone |-> FALSE, id |-> id, text |-> text]
\* a returned None in place of the dict
NoneDict == [isNone |-> TRUE, id |-> None, text |-> None]

Returns(v) == [raised |-> FALSE, value |-> v]
\* the exception left the adapter method
Raises == [raised |-> TRUE, value |-> None]

----------------------------------------------------------------------------
(* GeminiClient *)

\* the result without the `or f"Status: {interaction.status}"` fallback
GeminiResearchResultNoStatus(i) == Dict(i.id, get_text(i.outputs))

GeminiResearchResult(i) ==
    Dict(i.id, Or(get_text(i.outputs), <<"Status: ", i.status>>))

GeminiCreatePlan(goal, reply) ==
    IF reply.ok THEN Returns(Dict(reply.id, get_text(reply.outputs)))
    ELSE Returns(NoneDict)

\* reply: the interaction _wait_for_completion returns, or Fault when the
\* create call or any poll raised
GeminiExecuteResearch(selected, previous_context, reply) ==
    IF reply.ok THEN Returns(GeminiResearchResult(reply))
    ELSE Returns(NoneDict)

GeminiSynthesizeReport(research_data, previous_context, reply) ==
    IF reply.ok THEN Returns(get_text(reply.outputs)) ELSE Returns(<<>>)

RECURSIVE FirstInline(_)
\* for part in parts: if part.inline_data: return part.inline_data.data
\* (falling off the loop returns None)
FirstInline(parts) ==
    IF parts = <<>> THEN None
    ELSE IF parts[1] # None THEN parts[1]
    ELSE FirstInline(Tail(parts))

GeminiGenerateInfographic(text, reply) ==
    IF reply.ok THEN Returns(FirstInline(reply.parts)) ELSE Returns(None)

----------------------------------------------------------------------------
(* OpenAICompatibleClient *)

OpenAICreatePlan(goal, reply) ==
    IF reply.ok THEN Returns(Dict(None, reply.content)) ELSE Returns(NoneDict)

\* "\n".join(f"- {r['title']}: {r['body']} ({r['href']})" for r in results)
SearchContext(results) ==
    Join([i \in 1..Len(results) |->
            <<"- ", results[i].title, ": ", results[i].body, " (", results[i].href, ")">>],
         <<"\n">>)

SectionOk(task, summary, search_context) ==
    <<"### Research for: ">> \o task \o <<"\n">> \o summary
        \o <<"\n", "\n", "Sources:", "\n">> \o search_context
SectionError(task) ==
    <<"### Research for: ">> \o task \o <<"\n", "Error: ", "exception">>

RECURSIVE ResearchLoop(_, _, _, _)
\* for idx, task in enumerate(tasks): the search is outside the try, the
\* completion call inside it
ResearchLoop(selected, behaviour, idx, research_results) ==
    IF idx > Len(selected)
    THEN Returns(Dict(None, Join(research_results, <<"\n", "\n">>)))
    ELSE IF behaviour[idx] = "search_fail" THEN Raises
    ELSE ResearchLoop(selected, behaviour, idx + 1,
            Append(research_results,
                   IF behaviour[idx] = "ok"
                   THEN SectionOk(selected[idx], Summary, SearchContext(SearchHits))
                   ELSE SectionError(selected[idx])))

OpenAIExecuteResearch(selected, previous_context, behaviour) ==
    ResearchLoop(selected, behaviour, 1, <<>>)

OpenAISynthesizeReport(research_data, previous_context, reply) ==
    IF reply.ok THEN Returns(reply.content) ELSE Returns(<<>>)

\* the method handing the request to an image model as GeminiClient does
OpenAIGenerateInfographicImage(text, reply) == GeminiGenerateInfographic(text, reply)

OpenAIGenerateInfographic(text, reply) == Returns(None)

----------------------------------------------------------------------------
(* Pipeline driver: one Streamlit script run per user action *)

Providers == {"Google Gemini", "OpenRouter", "Ollama", "vLLM"}

\* which adapter lines 58-64 construct; "none" stops the script at line 68
ClientOf(p, c) ==
    IF ~c THEN "none"
    ELSE IF p = "Google Gemini" THEN "Gemini" ELSE "OpenAI"

client == ClientOf(provider, configured)

Goal == <<"goal">>

\* one adapter call made by a button handler, and what came back
Call(op, arg, previous_context, out) ==
    [op |-> op, client |-> client, arg |-> arg,
     previous_context |-> previous_context, out |-> out]

Event(button, outcome, calls) ==
    [button |-> button, outcome |-> outcome, calls |-> calls]
NoEvent == Event("none", "none", <<>>)

\* the adapter methods as the driver reaches them through `client`
create_plan(goal, reply) ==
    IF client = "Gemini" THEN GeminiCreatePlan(goal, reply)
    ELSE OpenAICreatePlan(goal, reply)

execute_research(selected, previous_context, reply) ==
    IF client = "Gemini" THEN GeminiExecuteResearch(selected, previous_context, reply)
    ELSE OpenAIExecuteResearch(selected, previous_context, reply)

synthesize_report(research_data, previous_context, reply) ==
    IF client = "Gemini" THEN GeminiSynthesizeReport(research_data, previous_context, reply)
    ELSE OpenAISynthesizeReport(research_data, previous_context, reply)

generate_infographic(text, reply) ==
    IF client = "Gemini" THEN GeminiGenerateInfographic(text, reply)
    ELSE OpenAIGenerateInfographic(text, reply)

\* `if result and result.get("text")`
DictOk(out) == ~out.raised /\ ~out.value.isNone /\ Truthy(out.value.text)

\* the checkboxes of lines 90-92 are keyed f"t{num}": Streamlit raises on a
\* repeated widget key, which ends the script run at line 91
CheckboxesRender(ts) ==
    \A i, j \in 1..Len(ts) : ts[i].num = ts[j].num => i = j

RECURSIVE Selected(_, _, _)
\* lines 88-92: f"{num}. {text}" for every task whose checkbox is ticked
Selected(ts, ticked, i) ==
    IF i > Len(ts) THEN <<>>
    ELSE (IF i \in ticked THEN <<ts[i].num \o <<".", " ">> \o ts[i].text>> ELSE <<>>)
         \o Selected(ts, ticked, i + 1)

\* the button without its `disabled=not selected`
ResearchAlwaysEnabled(selected) == TRUE

\* `disabled=not selected` on the Start Research button
ResearchEnabled(selected) == selected # <<>>

\* the session state of lines 16-18, before any button was pressed
DriverIdle ==
    /\ plan_id = None
    /\ plan_text = None
    /\ tasks = <<>>
    /\ research_id = None
    /\ research_text = None
    /\ synthesis_text = None
    /\ infographic = None
    /\ event = NoEvent

\* no execute_research call of the stateful adapter is being followed
WaitOff ==
    /\ iid = None /\ elapsed = 0 /\ progress = 0 /\ status_text = <<>>
    /\ interaction = Fault /\ result = NoneDict /\ error = "none"
    /\ polls = 0 /\ waits = 0 /\ fetches = 0

\* no execute_research call of the stateless adapter is being followed
ResearchOff ==
    /\ r_pc = "off" /\ r_selected = <<>> /\ r_behaviour = <<>>
    /\ r_idx = 0 /\ r_results = <<>> /\ r_progress = <<>>
    /\ r_out = Raises

\* no parse_tasks call is being followed
ParseOff ==
    /\ p_pc = "off" /\ p_lines = <<>> /\ p_text = <<>> /\ p_tasks = <<>>

Init ==
    /\ provider = "Google Gemini"
    /\ configured = FALSE
    /\ DriverIdle
    /\ pc = "off" /\ WaitOff
    /\ ResearchOff
    /\ ParseOff

\* the sidebar: pick a provider and fill in (or leave empty) its settings
Configure ==
    \E p \in Providers, c \in BOOLEAN :
        /\ provider' = p
        /\ configured' = c
        /\ event' = NoEvent
        /\ UNCHANGED <<plan_id, plan_text, tasks, research_id, research_text,
                       synthesis_text, infographic>>
        /\ UNCHANGED <<waitVars, researchVars, parseVars>>

\* the reset with the report keys left out of its list
ResetStateKeepsReport ==
    /\ plan_id' = None
    /\ plan_text' = None
    /\ tasks' = <<>>
    /\ research_id' = None
    /\ research_text' = None
    /\ event' = Event("Reset State", "ok", <<>>)
    /\ UNCHANGED <<provider, configured, synthesis_text, infographic>>
    /\ UNCHANGED <<waitVars, researchVars, parseVars>>

\* lines 44-47
ResetState ==
    /\ plan_id' = None
    /\ plan_text' = None
    /\ tasks' = <<>>
    /\ research_id' = None
    /\ research_text' = None
    /\ synthesis_text' = None
    /\ infographic' = None
    /\ event' = Event("Reset State", "ok", <<>>)
    /\ UNCHANGED <<provider, configured>>
    /\ UNCHANGED <<waitVars, researchVars, parseVars>>

\* Phase 1
GeneratePlan ==
    /\ client # "none"
    /\ \E reply \in (IF client = "Gemini" THEN PlanReplies ELSE PlanCompletions) :
        LET out == create_plan(Goal, reply)
            ok == DictOk(out)
        IN  /\ plan_id' = IF ok THEN out.value.id ELSE plan_id
            /\ plan_text' = IF ok THEN out.value.text ELSE plan_text
            /\ tasks' = IF ok THEN parse_tasks(out.value.text) ELSE tasks
            /\ event' = Event("Generate Plan", IF ok THEN "ok" ELSE "failed",
                              <<Call("create_plan", Goal, None, out)>>)
    /\ UNCHANGED <<provider, configured, research_id, research_text,
                   synthesis_text, infographic>>
    /\ UNCHANGED <<waitVars, researchVars, parseVars>>

\* the call written with previous_context=st.session_state.research_id
ResearchContextOwnId == research_id

\* line 101: previous_context=st.session_state.plan_id
ResearchContext == plan_id

\* Phase 2
StartResearch ==
    /\ client # "none"
    /\ Truthy(plan_text)
    /\ CheckboxesRender(tasks)
    /\ \E ticked \in SUBSET (1..Len(tasks)) :
        LET selected == Selected(tasks, ticked, 1)
        IN  /\ ResearchEnabled(selected)
            /\ \E reply \in (IF client = "Gemini" THEN ResearchReplies
                             ELSE [1..Len(selected) -> TaskBehaviours]) :
                LET out == execute_research(selected, ResearchContext, reply)
                    ok == DictOk(out)
                IN  /\ research_id' = IF ok THEN out.value.id ELSE research_id
                    /\ research_text' = IF ok THEN out.value.text ELSE research_text
                    /\ event' = Event("Start Research",
                                      IF out.raised THEN "raised"
                                      ELSE IF ok THEN "ok" ELSE "failed",
                                      <<Call("execute_research", selected, ResearchContext, out)>>)
    /\ UNCHANGED <<provider, configured, plan_id, plan_text, tasks,
                   synthesis_text, infographic>>
    /\ UNCHANGED <<waitVars, researchVars, parseVars>>

\* Phase 3
GenerateReport ==
    /\ client # "none"
    /\ Truthy(plan_text) => CheckboxesRender(tasks)
    /\ Truthy(research_text)
    /\ \E reply \in (IF client = "Gemini" THEN SynthesisReplies ELSE SynthesisCompletions),
          image \in ImageReplies :
        LET synthesis == synthesize_report(research_text, research_id, reply)
            ok == Truthy(synthesis.value)
            stored == IF ok THEN synthesis.value ELSE synthesis_text
            picture == generate_infographic(stored, image)
        IN  /\ synthesis_text' = stored
            /\ infographic' = IF Truthy(picture.value) THEN picture.value ELSE infographic
            /\ event' = Event("Generate Executive Report",
                              IF ok THEN "ok" ELSE "failed",
                              <<Call("synthesize_report", research_text, research_id, synthesis),
                                Call("generate_infographic", stored, None, picture)>>)
    /\ UNCHANGED <<provider, configured, plan_id, plan_text, tasks,
                   research_id, research_text>>
    /\ UNCHANGED <<waitVars, researchVars, parseVars>>

Next ==
    \/ Configure
    \/ ResetState
    \/ GeneratePlan
    \/ StartResearch
    \/ GenerateReport

Spec == Init /\ [][Next]_vars

----------------------------------------------------------------------------
(* GeminiClient.execute_research with _wait_for_completion, step by step.  *)
(* pc: "start" (before interactions.create), "loop" (at the while test),    *)
(* "sleep" (in time.sleep), "return" (back in execute_research with the     *)
(* interaction), "done" (execute_research has returned `result`).           *)
(* polls counts the interactions.get calls made inside the loop, waits the  *)
(* time.sleep calls, fetches the interactions.get calls after the loop;     *)
(* error names the call whose exception the except clause reported.         *)

\* timeout: int = 300
TIMEOUT == 300
\* elapsed += 3 / time.sleep(3)
POLL_INTERVAL == 3
\* min(90, ...)
PROGRESS_CAP == 90

\* int(elapsed / timeout * 100) in IEEE doubles: for timeout = 300 the
\* product falls just below the integer at these values of elapsed
FloatShort == {87, 171, 174}
IntPercent(e, t) ==
    IF t = 300 /\ e \in FloatShort THEN ((e * 100) \div t) - 1 ELSE (e * 100) \div t

\* the while test written `elapsed <= timeout`
WithinBudgetInclusive(e) == e <= TIMEOUT

\* the while test of line 110
WithinBudget(e) == e < TIMEOUT

\* the completion test written `status == "completed"`
CompletedOnly(i) == i.status = "completed"

\* the completion test of line 112
Completed(i) == i.status # IN_PROGRESS

\* line 116
NextElapsed(e) == e + POLL_INTERVAL

\* the value of line 117 without its min(90, ...)
PollingProgressUncapped(e) == IntPercent(e, TIMEOUT)

\* the value line 117 reports
PollingProgress(e) == Min(PROGRESS_CAP, IntPercent(e, TIMEOUT))

\* what client.interactions.get(iid) may answer
GetReplies(id) ==
    {Fault} \cup {Interaction(id, s, o) : s \in Statuses, o \in {<<>>, <<Findings>>}}

InitWait ==
    /\ provider = "Google Gemini"
    /\ configured = TRUE
    /\ DriverIdle
    /\ pc = "start" /\ WaitOff
    /\ ResearchOff
    /\ ParseOff

\* lines 63-69 and 109: the background job is created, the bar is set to 0
WCreate ==
    /\ pc = "start"
    /\ \E reply \in {Fault} \cup {Interaction(id, IN_PROGRESS, <<>>) : id \in InteractionIds} :
        IF reply.ok
        THEN /\ interaction' = reply
             /\ iid' = reply.id
             /\ pc' = "loop"
             /\ UNCHANGED <<result, error>>
        ELSE \* line 78: st.error, return None
             /\ result' = NoneDict
             /\ error' = "create"
             /\ pc' = "done"
             /\ UNCHANGED <<interaction, iid>>
    /\ elapsed' = 0
    /\ progress' = 0
    /\ status_text' = <<>>
    /\ UNCHANGED <<polls, waits, fetches>>
    /\ UNCHANGED <<driverVars, researchVars, parseVars>>

\* lines 110-118: one pass of the loop body up to the sleep
WPoll ==
    /\ pc = "loop"
    /\ WithinBudget(elapsed)
    /\ polls' = polls + 1
    /\ \E reply \in GetReplies(iid) :
        IF ~reply.ok
        THEN \* the exception reaches line 77
             /\ result' = NoneDict
             /\ error' = "poll"
             /\ pc' = "done"
             /\ UNCHANGED <<interaction, elapsed, progress, status_text>>
        ELSE IF Completed(reply)
        THEN /\ interaction' = reply
             /\ progress' = 100
             /\ status_text' = <<>>
             /\ pc' = "return"
             /\ UNCHANGED <<elapsed, result, error>>
        ELSE /\ interaction' = reply
             /\ elapsed' = NextElapsed(elapsed)
             /\ progress' = PollingProgress(NextElapsed(elapsed))
             /\ status_text' = <<"wait ", ToString(NextElapsed(elapsed)), "s...">>
             /\ pc' = "sleep"
             /\ UNCHANGED <<result, error>>
    /\ UNCHANGED <<iid, waits, fetches>>
    /\ UNCHANGED <<driverVars, researchVars, parseVars>>

\* line 119
WSleep ==
    /\ pc = "sleep"
    /\ waits' = waits + 1
    /\ pc' = "loop"
    /\ UNCHANGED <<iid, elapsed, progress, status_text, interaction, result, error,
                   polls, fetches>>
    /\ UNCHANGED <<driverVars, researchVars, parseVars>>

\* line 120: the loop ran out of budget
WFinalFetch ==
    /\ pc = "loop"
    /\ ~WithinBudget(elapsed)
    /\ fetches' = fetches + 1
    /\ \E reply \in GetReplies(iid) :
        IF reply.ok
        THEN /\ interaction' = reply
             /\ pc' = "return"
             /\ UNCHANGED <<result, error>>
        ELSE /\ result' = NoneDict
             /\ error' = "fetch"
             /\ pc' = "done"
             /\ UNCHANGED interaction
    /\ UNCHANGED <<iid, elapsed, progress, status_text, polls, waits>>
    /\ UNCHANGED <<driverVars, researchVars, parseVars>>

\* lines 72-76
WReturn ==
    /\ pc = "return"
    /\ result' = GeminiResearchResult(interaction)
    /\ pc' = "done"
    /\ UNCHANGED <<iid, elapsed, progress, status_text, interaction, error,
                   polls, waits, fetches>>
    /\ UNCHANGED <<driverVars, researchVars, parseVars>>

NextWait ==
    \/ WCreate
    \/ WPoll
    \/ WSleep
    \/ WFinalFetch
    \/ WReturn

\* every backend call returns or raises and every sleep ends, so the single
\* thread running execute_research always takes its next step
SpecWait == InitWait /\ [][NextWait]_vars /\ WF_vars(NextWait)

----------------------------------------------------------------------------
(* OpenAICompatibleClient.execute_research on every selection of the tasks  *)
(* of a three-task plan and every behaviour of the search provider and the  *)
(* model on them                                                            *)

Selections ==
    {Selected(parse_tasks(PlanThree), ticked, 1) :
        ticked \in (SUBSET (1..Len(parse_tasks(PlanThree)))) \ {{}}}

\* progress.progress(int(idx / total_tasks * 100)): the index in place of
\* the count of tasks done
ResearchProgressOfIndex(idx, total_tasks) == IntPercent(idx, total_tasks)

\* line 172: int((idx + 1) / total_tasks * 100); for the task counts
\* considered the float quotient truncates to the integer quotient
ResearchProgress(idx, total_tasks) == IntPercent(idx + 1, total_tasks)

InitResearch ==
    /\ provider = "Ollama"
    /\ configured = TRUE
    /\ DriverIdle
    /\ pc = "off" /\ WaitOff
    /\ r_pc = "call"
    /\ r_selected \in Selections
    /\ r_behaviour \in [1..Len(r_selected) -> TaskBehaviours]
    /\ r_idx = 0 /\ r_results = <<>> /\ r_progress = <<>>
    /\ r_out = Raises
    /\ ParseOff

\* lines 149-153: research_results = [], the bar is created at 0
RCall ==
    /\ r_pc = "call"
    /\ r_results' = <<>>
    /\ r_progress' = <<0>>
    /\ r_idx' = 0
    /\ r_pc' = "loop"
    /\ UNCHANGED <<r_selected, r_behaviour, r_out>>
    /\ UNCHANGED <<driverVars, waitVars, parseVars>>

\* lines 154-158: the next task (tasks[idx], here r_selected[r_idx + 1]) is
\* searched for; the search call is outside the try
RSearch ==
    /\ r_pc = "loop"
    /\ r_idx < Len(r_selected)
    /\ IF r_behaviour[r_idx + 1] = "search_fail"
       THEN r_out' = Raises /\ r_pc' = "done"
       ELSE r_out' = r_out /\ r_pc' = "summarize"
    /\ UNCHANGED <<r_selected, r_behaviour, r_idx, r_results, r_progress>>
    /\ UNCHANGED <<driverVars, waitVars, parseVars>>

\* lines 161-172: the task is summarised, its section (or its error
\* section) is appended and the bar is advanced
RSummarize ==
    /\ r_pc = "summarize"
    /\ r_results' = Append(r_results,
                           IF r_behaviour[r_idx + 1] = "ok"
                           THEN SectionOk(r_selected[r_idx + 1], Summary,
                                          SearchContext(SearchHits))
                           ELSE SectionError(r_selected[r_idx + 1]))
    /\ r_progress' = Append(r_progress, ResearchProgress(r_idx, Len(r_selected)))
    /\ r_idx' = r_idx + 1
    /\ r_pc' = "loop"
    /\ UNCHANGED <<r_selected, r_behaviour, r_out>>
    /\ UNCHANGED <<driverVars, waitVars, parseVars>>

\* lines 174-179: the loop is over
RReturn ==
    /\ r_pc = "loop"
    /\ r_idx = Len(r_selected)
    /\ r_out' = Returns(Dict(None, Join(r_results, <<"\n", "\n">>)))
    /\ r_pc' = "done"
    /\ UNCHANGED <<r_selected, r_behaviour, r_idx, r_results, r_progress>>
    /\ UNCHANGED <<driverVars, waitVars, parseVars>>

NextResearch ==
    \/ RCall
    \/ RSearch
    \/ RSummarize
    \/ RReturn

SpecResearch == InitResearch /\ [][NextResearch]_vars

\* the steps above end as the one-step form the driver uses
ResearchStepsAgree ==
    r_pc = "done" => r_out = OpenAIExecuteResearch(r_selected, None, r_behaviour)

----------------------------------------------------------------------------
(* parse_tasks on every short text over a small alphabet, and on every plan *)
(* text made of a few ordinal lines                                         *)

MaxLen == 5
MaxLines == 3

Alphabet == {"1", ".", " ", "\n", "a"}
ShortTexts == UNION {[1..n -> Alphabet] : n \in 0..MaxLen}

\* the parts of an ordinal line: <digits><separator><whitespace><body>
LineOrdinals == {<<"2">>, <<"1", "0">>}
LineSeparators == {".", ")", "-"}
\* a word, a phrase that mentions an ordinal, a word followed by a blank
LineBodies == {<<"a">>, <<"a", " ", "2", ".", "b">>, <<"a", " ">>}
Lines == [num : LineOrdinals, sep : LineSeparators, ws : {<<" ">>}, body : LineBodies]
LineSeqs == UNION {[1..k -> Lines] : k \in 1..MaxLines}

LineText(l) == l.num \o <<l.sep>> \o l.ws \o l.body
\* the lines, one per text line
TextOfLines(ls) == Join([i \in 1..Len(ls) |-> LineText(ls[i])], <<"\n">>)

InitParse ==
    /\ provider = "Google Gemini"
    /\ configured = FALSE
    /\ DriverIdle
    /\ pc = "off" /\ WaitOff
    /\ ResearchOff
    /\ p_pc = "call"
    /\ \/ p_lines = <<>> /\ p_text \in ShortTexts
       \/ p_lines \in LineSeqs /\ p_text = TextOfLines(p_lines)
    /\ p_tasks = <<>>

\* tasks = parse_tasks(text)
Parse ==
    /\ p_pc = "call"
    /\ p_tasks' = parse_tasks(p_text)
    /\ p_pc' = "done"
    /\ UNCHANGED <<p_lines, p_text>>
    /\ UNCHANGED <<driverVars, waitVars, researchVars>>

NextParse == Parse

SpecParse == InitParse /\ [][NextParse]_vars

----------------------------------------------------------------------------
(* Properties of the pipeline driver (Spec) *)

\* sub occurs in text as a contiguous run of tokens
Contains(text, sub) ==
    \E k \in 0..(Len(text) - Len(sub)) : SubSeq(text, k + 1, k + Len(sub)) = sub

\* C1: in every state reached right after a successful create_plan, no
\* ResearchResult, SynthesisReport or Infographic of an older plan is stored.
C1_PlanClearsDownstream ==
    (event.button = "Generate Plan" /\ event.outcome = "ok") =>
        /\ research_id = None
        /\ research_text = None
        /\ synthesis_text = None
        /\ infographic = None

\* C2: a button handling whose phase call failed leaves plan_id, plan_text,
\* tasks, research_id, research_text, synthesis_text and infographic as they
\* were.
C2_FailureKeepsState ==
    [][event'.outcome = "failed" =>
         UNCHANGED <<plan_id, plan_text, tasks, research_id, research_text,
                     synthesis_text, infographic>>]_vars

\* C3: no adapter operation lets an exception propagate to the driver.
C3_NoExceptionEscapes ==
    \A i \in 1..Len(event.calls) : ~event.calls[i].out.raised

\* C7: the adapter that receives a context id in execute_research or
\* synthesize_report is of the backend that produced it.  Only the stateful
\* adapter produces context ids (the stateless one always returns id None),
\* so a context id must never reach the stateless adapter.
C7_NoProviderMixing ==
    \A i \in 1..Len(event.calls) :
        (/\ event.calls[i].op \in {"execute_research", "synthesize_report"}
         /\ event.calls[i].previous_context # None)
            => event.calls[i].client = "Gemini"

\* C8: execute_research is called only with a stored non-empty plan text and
\* a non-empty selection, and with no parsed tasks the Start Research button
\* cannot be pressed.
C8_ResearchNeedsSelection ==
    /\ event.button = "Start Research" =>
        /\ event.calls[1].op = "execute_research"
        /\ event.calls[1].arg # <<>>
        /\ Truthy(plan_text)
        /\ tasks # <<>>
    /\ tasks = <<>> => ~ENABLED StartResearch

\* a research over one ticked task out of three has succeeded
C8_Witness ==
    /\ event.button = "Start Research"
    /\ event.outcome = "ok"
    /\ Len(tasks) = 3
    /\ Len(event.calls[1].arg) = 1
    /\ research_text = event.calls[1].out.value.text

----------------------------------------------------------------------------
(* Properties of the stateless adapter's execute_research (SpecResearch) *)

SearchFailures == {i \in 1..Len(r_selected) : r_behaviour[i] = "search_fail"}

\* C4: with three selected tasks of which exactly one search call fails, the
\* call returns a non-empty text holding the sections of the other two tasks
\* and an error section for the failed one.
C4_PartialFailureIsolation ==
    (r_pc = "done" /\ Len(r_selected) = 3 /\ Cardinality(SearchFailures) = 1) =>
        /\ ~r_out.raised
        /\ ~r_out.value.isNone
        /\ Truthy(r_out.value.text)
        /\ \A i \in 1..3 :
            IF r_behaviour[i] = "ok"
            THEN Contains(r_out.value.text,
                          SectionOk(r_selected[i], Summary, SearchContext(SearchHits)))
            ELSE Contains(r_out.value.text, SectionError(r_selected[i]))

----------------------------------------------------------------------------
(* Properties of the stateful adapter's poll loop (SpecWait) *)

\* the number of polls the budget allows
MaxPolls == TIMEOUT \div POLL_INTERVAL

\* the call has returned after the loop ran out of budget
TimedOut == pc = "done" /\ fetches = 1

C6_NoWaitAtBudget ==
    /\ polls <= MaxPolls
    /\ elapsed = POLL_INTERVAL * (IF pc = "sleep" THEN waits + 1 ELSE waits)
    /\ pc = "sleep" => elapsed < TIMEOUT
    /\ fetches <= 1

\* what holds in every state of the loop
WaitBounded ==
    /\ polls <= MaxPolls
    /\ waits <= MaxPolls
    /\ POLL_INTERVAL * waits <= TIMEOUT
    /\ elapsed = POLL_INTERVAL * (IF pc = "sleep" THEN waits + 1 ELSE waits)
    /\ elapsed <= TIMEOUT
    /\ fetches <= 1
    /\ fetches = 1 => polls = MaxPolls /\ elapsed = TIMEOUT

\* what holds of every step of the loop
WaitStep ==
    /\ elapsed' # elapsed =>
        /\ elapsed' = elapsed + 3
        /\ polls' = polls + 1
        /\ interaction'.status = IN_PROGRESS
    /\ polls' # polls => elapsed < TIMEOUT /\ fetches = 0
    /\ waits' # waits => waits' = waits + 1 /\ elapsed <= TIMEOUT
    /\ fetches' # fetches => elapsed = TIMEOUT /\ pc' \in {"return", "done"}

\* C6 as amended: the call terminates for every backend behaviour; elapsed
\* grows by exactly 3 per in-progress poll, at most 100 polls and 100 waits
\* are made (the 100th wait with elapsed already at 300, the waits summing to
\* the budget), no poll starts once elapsed has reached 300, and the call
\* returns after one final fetch.
C6_Terminates ==
    /\ []WaitBounded
    /\ [][WaitStep]_vars
    /\ <>(pc = "done")

\* the budget ran out after 100 polls and 100 waits and the call returned
C6_Witness ==
    /\ TimedOut
    /\ polls = 100
    /\ waits = 100
    /\ elapsed = 300

\* C9: reported progress never decreases, is at most 90 while the job is in
\* progress, and is 100 only once a poll has seen another status.
C9_ProgressMonotone ==
    /\ [][progress' >= progress]_vars
    /\ [](pc \in {"loop", "sleep"} => progress <= 90)
    /\ [](interaction.status = IN_PROGRESS => progress <= 90)
    /\ [](progress = 100 =>
            /\ polls >= 1
            /\ fetches = 0
            /\ interaction.ok
            /\ interaction.status # IN_PROGRESS)

\* the bar stood at its cap when the 100th poll found the job finished
C9_Witness ==
    /\ pc = "return"
    /\ progress = 100
    /\ elapsed = 297
    /\ polls = 100

\* C10: a poll that sees a status other than in-progress ends the loop with
\* that interaction and no further wait or poll; a poll that sees in-progress
\* leads to a wait and, within budget, to the next poll.
C10_CompletionPredicate ==
    /\ [][polls' # polls =>
            \/ error' = "poll" /\ pc' = "done"
            \/ /\ error' = "none"
               /\ interaction'.status # IN_PROGRESS
               /\ pc' = "return"
               /\ waits' = waits
            \/ /\ error' = "none"
               /\ interaction'.status = IN_PROGRESS
               /\ pc' = "sleep"]_vars
    /\ [][pc = "return" =>
            /\ pc' = "done"
            /\ polls' = polls /\ waits' = waits /\ fetches' = fetches
            /\ result'.id = interaction.id
            /\ interaction' = interaction]_vars
    /\ [][pc = "sleep" => pc' = "loop" /\ polls' = polls]_vars
    /\ [][(pc = "loop" /\ elapsed < TIMEOUT) => polls' = polls + 1]_vars

\* the second poll saw "failed" and the loop handed that interaction back
C10_Witness ==
    /\ pc = "return"
    /\ interaction.status = "failed"
    /\ polls = 2
    /\ waits = 1
    /\ fetches = 0

----------------------------------------------------------------------------
(* Properties of the task parser (SpecParse) *)

\* d is s with its leading and trailing whitespace removed
IsTrimOf(d, s) ==
    \E i \in 1..Len(s) + 1, j \in 0..Len(s) :
        /\ d = SubSeq(s, i, j)
        /\ \A k \in 1..Len(s) : (k < i \/ k > j) => IsSpace(s[k])
        /\ d # <<>> => ~IsSpace(d[1]) /\ ~IsSpace(d[Len(d)])

\* C11 as stated: a plan text of k ordinal lines parses into exactly k tasks
\* in line order, the i-th with the ordinal of line i verbatim and the body
\* of line i, unchanged, as its description.
C11_BodyVerbatim ==
    (p_pc = "done" /\ p_lines # <<>>) =>
        /\ Len(p_tasks) = Len(p_lines)
        /\ \A i \in 1..Len(p_lines) :
            /\ p_tasks[i].num = p_lines[i].num
            /\ p_tasks[i].text = p_lines[i].body

\* C11 amended: a plan text of k ordinal lines, each body single-line with a
\* non-whitespace character, parses into exactly k tasks in line order, the
\* i-th with the ordinal of line i verbatim (not sorted, renumbered or
\* de-duplicated) and the body of line i with its surrounding whitespace
\* removed as its description.
C11_LinesBecomeTasks ==
    (p_pc = "done" /\ p_lines # <<>>) =>
        /\ Len(p_tasks) = Len(p_lines)
        /\ \A i \in 1..Len(p_lines) :
            /\ p_tasks[i].num = p_lines[i].num
            /\ IsTrimOf(p_tasks[i].text, p_lines[i].body)

\* three lines, one per separator, a repeated ordinal out of numeric order,
\* and a body that ends in a blank
C11_Witness ==
    /\ p_pc = "done"
    /\ Len(p_lines) = 3
    /\ {p_lines[i].sep : i \in 1..3} = LineSeparators
    /\ p_lines[1].num = <<"1", "0">> /\ p_lines[2].num = <<"2">>
    /\ p_lines[3].num = <<"1", "0">>
    /\ p_lines[2].body = <<"a", " ">>
    /\ Len(p_tasks) = 3
    /\ p_tasks[2] = [num |-> <<"2">>, text |-> <<"a">>]

\* d begins with digits, one separator and at least one further character
HasOrdinalPrefix(d) ==
    \E n \in 1..Len(d) :
        /\ \A k \in 1..n : IsDigit(d[k])
        /\ n + 2 <= Len(d)
        /\ IsSep(d[n + 1])

\* the digits d begins with
LeadingDigits(d) == SubSeq(d, 1, DigitsEnd(d, 1) - 1)

OrdinalLineAt(text, k) ==
    /\ text[k - 1] = "\n"
    /\ IsDigit(text[k])
    /\ DigitsEnd(text, k) + 1 <= Len(text)
    /\ IsSep(text[DigitsEnd(text, k)])
    /\ IsSpace(text[DigitsEnd(text, k) + 1])

\* C16: every task parse_tasks returns starts at a line start with digits,
\* one separator and at least one whitespace character, and what it spans
\* holds no blank line and no later ordinal line.
C16_ExtractionRule ==
    p_pc = "done" =>
        \A s \in FindStarts(p_text, 1) :
            LET d == DigitsEnd(p_text, s)
                e == MatchEnd(p_text, s)
            IN  /\ s = 1 \/ p_text[s - 1] = "\n"
                /\ IsDigit(p_text[s])
                /\ IsSep(p_text[d])
                /\ d + 1 <= Len(p_text) /\ IsSpace(p_text[d + 1])
                /\ \A k \in (d + 1)..(e - 2) :
                        ~(p_text[k] = "\n" /\ p_text[k + 1] = "\n")
                /\ \A k \in (s + 1)..(e - 1) : ~OrdinalLineAt(p_text, k)

----------------------------------------------------------------------------
(* Properties of the report phase of the pipeline driver (Spec) *)

REPORT == "Generate Executive Report"

\* C13: on the stateless adapter generate_infographic returns None without
\* raising, whatever the image service would answer, and a report step run
\* on that adapter leaves the stored infographic as it was.
C13_StatelessNoInfographic ==
    [][(event'.button = REPORT /\ event'.calls[2].client = "OpenAI") =>
            /\ event'.calls[2].op = "generate_infographic"
            /\ event'.calls[2].out = Returns(None)
            /\ infographic' = infographic]_vars

\* a report was synthesized on the stateless adapter and no infographic is
\* stored with it
C13_Witness ==
    /\ event.button = REPORT
    /\ event.outcome = "ok"
    /\ event.calls[2].client = "OpenAI"
    /\ event.calls[2].arg = Report
    /\ synthesis_text = Report
    /\ infographic = None

\* the generate_infographic calls of the last button handling
InfographicCalls ==
    {i \in 1..Len(event.calls) : event.calls[i].op = "generate_infographic"}

\* C14: a report step calls generate_infographic exactly once when its
\* synthesize_report call returned a report, and not at all when that call
\* returned the empty sentinel.
C14_InfographicOnlyAfterSynthesis ==
    event.button = REPORT =>
        /\ event.calls[1].op = "synthesize_report"
        /\ IF Truthy(event.calls[1].out.value)
           THEN Cardinality(InfographicCalls) = 1
           ELSE InfographicCalls = {}

----------------------------------------------------------------------------
(* Properties of the stateless execute_research, step by step (SpecResearch) *)

NonDecreasing(seq) == \A i \in 1..Len(seq) - 1 : seq[i] <= seq[i + 1]

\* the section the i-th task must get
SectionFor(i) ==
    IF r_behaviour[i] = "ok"
    THEN SectionOk(r_selected[i], Summary, SearchContext(SearchHits))
    ELSE SectionError(r_selected[i])

\* C15: when no search call fails, whatever summarisations fail, the tasks
\* are taken one at a time in the given order, the sections written so far
\* are those of the first tasks in task order (a summary with its sources,
\* or an error section), the progress reported never decreases, and the
\* call ends with one section per task, their concatenation in task order
\* as the text, and the progress at 100.
C15_OrderedSections ==
    SearchFailures = {} =>
        /\ r_pc \in {"loop", "done"} => Len(r_results) = r_idx
        /\ r_pc = "summarize" => Len(r_results) = r_idx /\ r_idx < Len(r_selected)
        /\ \A i \in 1..Len(r_results) : r_results[i] = SectionFor(i)
        /\ NonDecreasing(r_progress)
        /\ r_pc = "done" =>
            /\ Len(r_results) = Len(r_selected)
            /\ r_out = Returns(Dict(None, Join(r_results, <<"\n", "\n">>)))
            /\ Len(r_progress) = Len(r_selected) + 1
            /\ r_progress[Len(r_progress)] = 100

\* three tasks, the summarisation of the second failing
C15_Witness ==
    /\ r_pc = "done"
    /\ Len(r_selected) = 3
    /\ r_behaviour = <<"ok", "llm_fail", "ok">>
    /\ Len(r_results) = 3
    /\ r_progress = <<0, 33, 66, 100>>
    /\ ~r_out.raised

----------------------------------------------------------------------------
(* Properties of the stored pipeline state (Spec) *)

\* C17: the tasks stored in the session carry pairwise distinct ordinals.
C17_OrdinalsUnique ==
    \A i, j \in 1..Len(tasks) : tasks[i].num = tasks[j].num => i = j

\* nothing of the plan / of the research is stored
PlanCleared == plan_id = None /\ plan_text = None /\ tasks = <<>>
ResearchCleared == research_id = None /\ research_text = None

\* C18: every execute_research call gets the stored plan_id, every
\* synthesize_report call gets the stored research_text and research_id; a
\* successful create_plan stores its id, its text and the tasks parsed from
\* it together, a successful execute_research stores its id and its text
\* together, and no other step changes any of them except Reset State,
\* which clears them all: the stored plan_id is the one the latest
\* successful create_plan returned, the stored research_id the one returned
\* with the stored research_text.
C18_ContextThreading ==
    [][/\ event'.button = "Generate Plan" =>
            LET out == event'.calls[1].out
            IN  IF DictOk(out)
                THEN /\ plan_id' = out.value.id
                     /\ plan_text' = out.value.text
                     /\ tasks' = parse_tasks(out.value.text)
                ELSE UNCHANGED <<plan_id, plan_text, tasks>>
       /\ event'.button = "Start Research" =>
            LET call == event'.calls[1]
            IN  /\ call.previous_context = plan_id
                /\ IF DictOk(call.out)
                   THEN /\ research_id' = call.out.value.id
                        /\ research_text' = call.out.value.text
                   ELSE UNCHANGED <<research_id, research_text>>
       /\ event'.button = REPORT =>
            /\ event'.calls[1].arg = research_text
            /\ event'.calls[1].previous_context = research_id
       /\ event'.button # "Generate Plan" =>
            UNCHANGED <<plan_id, plan_text, tasks>> \/ PlanCleared'
       /\ event'.button # "Start Research" =>
            UNCHANGED <<research_id, research_text>> \/ ResearchCleared'
       /\ event'.button = "Reset State" => PlanCleared' /\ ResearchCleared'
      ]_vars

\* on the stateful adapter, a plan, then research that got the plan's id,
\* then a report requested with the research's id
C18_Witness ==
    /\ event.button = REPORT
    /\ event.calls[1].client = "Gemini"
    /\ event.calls[1].previous_context = <<"1">>
    /\ event.calls[1].arg = research_text
    /\ research_id = <<"1">>
    /\ plan_id = <<"1">>

\* C19: whatever buttons were pressed and however their calls ended, a
\* stored synthesis_text comes with a stored non-empty research_text, and
\* a stored research_text with a stored non-empty plan_text.
C19_ForwardOrder ==
    /\ synthesis_text # None => Truthy(research_text)
    /\ research_text # None => Truthy(plan_text)

\* a report is stored, and the last button pressed failed
C19_Witness ==
    /\ Truthy(synthesis_text)
    /\ Truthy(research_text)
    /\ Truthy(plan_text)
    /\ event.button = "Generate Plan"
    /\ event.outcome = "failed"

\* C20: no infographic is stored while no synthesis_text is, and right
\* after a report step whose synthesize_report call returned a report, the
\* stored infographic is what the generate_infographic call made for that
\* report returned: none when the attempt returned none.
C20_InfographicOfStoredReport ==
    /\ infographic # None => synthesis_text # None
    /\ (event.button = REPORT /\ Truthy(event.calls[1].out.value)) =>
            \E i \in InfographicCalls :
                /\ event.calls[i].arg = synthesis_text
                /\ infographic = event.calls[i].out.value

====
